---- MODULE Spec2Model ----
(***************************************************************************)
(* Model of kvstore-rs (src/src/lib.rs): an in-memory DashMap index backed *)
(* by a write-ahead log "wa.log" (path P) that KvStore::open quarantines   *)
(* to "wa.log.old" (path P'), recreates and replays.                       *)
(*                                                                         *)
(* Strings are sequences of one-character strings.  The keys and values    *)
(* of the runs hold letters, digits, the space and the backslash; the      *)
(* decoder and the file writes are defined on every character, the double  *)
(* quote, the control characters and the line terminator included.         *)
(* A file is a record [exists, lines, cut]: the lines BufReader::lines     *)
(* yields, and whether the last of them lacks its line terminator.         *)
(***************************************************************************)
EXTENDS Naturals, Sequences, FiniteSets, TLC

\* ------------------------------------------------------------- bounds
\* Number of set/remove calls made over the life of the directory, with one
\* caller, no process death and no failing file-system call (Spec).
MaxOps == 3
\* Process deaths, and set/remove calls, in the runs with crashes (SpecCrash).
MaxCrashes == 1
MaxOpsCrash == 2
\* Failing file-system calls, and set/remove calls, in the runs with I/O
\* errors (SpecFault).
MaxFaults == 1
MaxOpsFault == 2
\* Threads sharing one store, and set/remove calls, in the concurrent runs
\* (SpecConc).
MaxThreads == 2
MaxOpsConc == 2
\* Length of the keys and values of the commands, and number of words of the
\* lines, that the codec is run on (SpecCodec).
MaxStrLen == 2
MaxWords == 3
\* write(2) calls that the loop of one write_all takes at most.
MaxWrites == 2

\* ------------------------------------------------------------- inputs
Space == " "
Quote == "\""
Backslash == "\\"
Keys == { <<"a">>, <<"b">>, <<"a", Space, "b">> }
Values == { <<"1">>, <<"2">> }
\* Keys for the runs on escape sequences (SpecEscape): a plain one, and one
\* of two backslashes, which has no white space and is a JSON escape.
EscapeKeys == { <<"a">>, <<Backslash, Backslash>> }
Threads == 1..MaxThreads

\* Keys and values the line format can carry: no space, double quote or
\* backslash inside.
IsClean(s) == \A i \in 1..Len(s) : s[i] \notin {Space, Quote, Backslash}

\* ------------------------------------------------------------- values
NoStr == << >>
NoFile == [exists |-> FALSE, lines |-> << >>, cut |-> FALSE]
EmptyFile == [exists |-> TRUE, lines |-> << >>, cut |-> FALSE]
EmptyStore == [k \in {} |-> NoStr]

\* A result: kind is "Ok", "OkSome", "OkNone" or the name of a KvStoreError
\* variant; arg is the String it carries; cause is the serde_json error of
\* DeserializeCommand.
Res(kind, arg, cause) == [kind |-> kind, arg |-> arg, cause |-> cause]
Ok == Res("Ok", NoStr, "")
OkStr(s) == Res("Ok", s, "")
Err(kind) == Res(kind, NoStr, "")
NoRes == Res("none", NoStr, "")

\* enum Command
CmdSet(k, v) == [op |-> "set", key |-> k, value |-> v]
CmdRm(k) == [op |-> "rm", key |-> k, value |-> NoStr]
CmdGet(k) == [op |-> "get", key |-> k, value |-> NoStr]
NoCmd == [op |-> "none", key |-> NoStr, value |-> NoStr]

\* ------------------------------------------------------------- codec
\* Variant: the value written before the key.
SetLine_Swapped(key, value) == <<"s", "e", "t", Space>> \o value \o <<Space>> \o key
\* format!("set {key} {value}") of KvStore::set
SetLine(key, value) == <<"s", "e", "t", Space>> \o key \o <<Space>> \o value
\* format!("rm {key}") of KvStore::remove
RmLine(key) == <<"r", "m", Space>> \o key
\* The record set or remove writes for a command, as execute calls them on
\* a command decoded from a line: made anew from its key and value.
RecordOf(cmd) == IF cmd.op = "set" THEN SetLine(cmd.key, cmd.value) ELSE RmLine(cmd.key)

\* The elements of a line cut at every single space, empty pieces kept.
RECURSIVE SplitSpaces(_)
SplitSpaces(line) ==
    IF \E i \in 1..Len(line) : line[i] = Space
    THEN LET i == CHOOSE j \in 1..Len(line) :
                      /\ line[j] = Space
                      /\ \A h \in 1..(j - 1) : line[h] # Space
         IN  <<SubSeq(line, 1, i - 1)>> \o SplitSpaces(SubSeq(line, i + 1, Len(line)))
    ELSE <<line>>

\* line.replace(' ', "\",\""): every space becomes quote, comma, quote.
RECURSIVE ReplaceSpaces(_)
ReplaceSpaces(line) ==
    IF line = << >> THEN << >>
    ELSE (IF Head(line) = Space THEN <<Quote, ",", Quote>> ELSE <<Head(line)>>)
         \o ReplaceSpaces(Tail(line))
\* format!("[\"{}\"]", ...): the JSON text handed to serde_json::from_str.
ArrayText(line) == <<"[", Quote>> \o ReplaceSpaces(line) \o <<Quote, "]">>

\* The characters of U+0020..U+007E, in order (U+0060 by name: a TLA+ string
\* cannot hold it).
Ascii ==
    << " ", "!", Quote, "#", "$", "%", "&", "'", "(", ")", "*", "+", ",", "-", ".", "/",
       "0", "1", "2", "3", "4", "5", "6", "7", "8", "9", ":", ";", "<", "=", ">", "?",
       "@", "A", "B", "C", "D", "E", "F", "G", "H", "I", "J", "K", "L", "M", "N", "O",
       "P", "Q", "R", "S", "T", "U", "V", "W", "X", "Y", "Z", "[", Backslash, "]", "^", "_",
       "U+000060", "a", "b", "c", "d", "e", "f", "g", "h", "i", "j", "k", "l", "m", "n", "o",
       "p", "q", "r", "s", "t", "u", "v", "w", "x", "y", "z", "{", "|", "}", "~" >>
HexUpper == <<"0", "1", "2", "3", "4", "5", "6", "7", "8", "9", "A", "B", "C", "D", "E", "F">>
HexLower == <<"0", "1", "2", "3", "4", "5", "6", "7", "8", "9", "a", "b", "c", "d", "e", "f">>
IsHex(c) == \E v \in 1..16 : c = HexUpper[v] \/ c = HexLower[v]
HexVal(c) == (CHOOSE v \in 1..16 : c = HexUpper[v] \/ c = HexLower[v]) - 1
Hex4(a, b, c, d) == ((HexVal(a) * 16 + HexVal(b)) * 16 + HexVal(c)) * 16 + HexVal(d)
\* The character of a code point: itself when it is printable ASCII or one of
\* the characters TLA+ can write, and a name made of its number otherwise.
CodeChar(v) ==
    IF v \in 32..126 THEN Ascii[v - 31]
    ELSE IF v = 9 THEN "\t"
    ELSE IF v = 10 THEN "\n"
    ELSE IF v = 12 THEN "\f"
    ELSE IF v = 13 THEN "\r"
    ELSE "U+" \o HexUpper[((v \div 1048576) % 16) + 1] \o HexUpper[((v \div 65536) % 16) + 1]
              \o HexUpper[((v \div 4096) % 16) + 1] \o HexUpper[((v \div 256) % 16) + 1]
              \o HexUpper[((v \div 16) % 16) + 1] \o HexUpper[(v % 16) + 1]
\* The characters below U+0020, which a JSON string may not hold raw.
ControlChars == { CodeChar(v) : v \in 0..31 }
\* The white space a JSON text may hold between its tokens (every space of
\* the line is gone by then).
JsonSpace == { "\t", "\n", "\r", Space }

NoJsonStr == [ok |-> FALSE, str |-> << >>, next |-> 0]
\* serde_json's parse_str from position i of text, just after the opening
\* quote, with acc read so far: the string up to the closing quote, escapes
\* decoded, and the position after that quote; or an error (end of text, a raw
\* control character, a bad escape, a lone surrogate).
RECURSIVE ParseStr(_, _, _)
ParseStr(text, i, acc) ==
    IF i > Len(text) THEN NoJsonStr
    ELSE IF text[i] = Quote THEN [ok |-> TRUE, str |-> acc, next |-> i + 1]
    ELSE IF text[i] \in ControlChars THEN NoJsonStr
    ELSE IF text[i] # Backslash THEN ParseStr(text, i + 1, Append(acc, text[i]))
    ELSE IF i + 1 > Len(text) THEN NoJsonStr
    ELSE LET e == text[i + 1]
             hex(j) == /\ j + 3 <= Len(text)
                       /\ \A h \in j..(j + 3) : IsHex(text[h])
             val(j) == Hex4(text[j], text[j + 1], text[j + 2], text[j + 3])
         IN  IF e \in {Quote, Backslash, "/"} THEN ParseStr(text, i + 2, Append(acc, e))
             ELSE IF e = "b" THEN ParseStr(text, i + 2, Append(acc, CodeChar(8)))
             ELSE IF e = "f" THEN ParseStr(text, i + 2, Append(acc, CodeChar(12)))
             ELSE IF e = "n" THEN ParseStr(text, i + 2, Append(acc, CodeChar(10)))
             ELSE IF e = "r" THEN ParseStr(text, i + 2, Append(acc, CodeChar(13)))
             ELSE IF e = "t" THEN ParseStr(text, i + 2, Append(acc, CodeChar(9)))
             ELSE IF e # "u" THEN NoJsonStr
             ELSE IF ~hex(i + 2) THEN NoJsonStr
             ELSE IF val(i + 2) \in 56320..57343 THEN NoJsonStr
             ELSE IF val(i + 2) \notin 55296..56319
                  THEN ParseStr(text, i + 6, Append(acc, CodeChar(val(i + 2))))
             ELSE IF /\ i + 7 <= Len(text)
                     /\ text[i + 6] = Backslash
                     /\ text[i + 7] = "u"
                     /\ hex(i + 8)
                     /\ val(i + 8) \in 56320..57343
                  THEN ParseStr(text, i + 12,
                                Append(acc, CodeChar(65536 + (val(i + 2) - 55296) * 1024
                                                           + (val(i + 8) - 56320))))
                  ELSE NoJsonStr

\* The position of the first character of text at or after i that is not
\* white space (Len(text) + 1 when there is none).
RECURSIVE SkipSpace(_, _)
SkipSpace(text, i) ==
    IF i <= Len(text) /\ text[i] \in JsonSpace THEN SkipSpace(text, i + 1) ELSE i

\* serde_json's SeqAccess over text from position i, after the "[": the
\* strings next_element yields, in order, until the "]" (closed, and next is
\* the position after it) or until what stands there is not an element
\* (not closed, and next is where it stands; comma tells that it is a ","
\* with the "]" right after it).
RECURSIVE SeqElements(_, _, _)
SeqElements(text, i, acc) ==
    LET j == SkipSpace(text, i)
        stop(at) == [elems |-> acc, closed |-> FALSE, next |-> at, comma |-> FALSE]
    IN  IF j > Len(text) THEN stop(j)
        ELSE IF text[j] = "]"
             THEN [elems |-> acc, closed |-> TRUE, next |-> j + 1, comma |-> FALSE]
        ELSE IF acc # << >> /\ text[j] # "," THEN stop(j)
        ELSE LET k == IF acc = << >> THEN j ELSE SkipSpace(text, j + 1)
             IN  IF acc # << >> /\ k <= Len(text) /\ text[k] = "]"
                 THEN [stop(j) EXCEPT !.comma = TRUE]
                 ELSE IF k > Len(text) \/ text[k] # Quote THEN stop(j)
                 ELSE LET s == ParseStr(text, k + 1, << >>)
                      IN  IF s.ok THEN SeqElements(text, s.next, Append(acc, s.str))
                          ELSE stop(k)

\* CommandVisitor::visit_seq: the command and the number of elements it took,
\* or the serde error.
VisitSeq(toks) ==
    IF Len(toks) = 0 THEN [ok |-> FALSE, cmd |-> NoCmd, used |-> 0, cause |-> "invalid_length_0"]
    ELSE IF toks[1] = <<"s", "e", "t">> THEN
        IF Len(toks) < 2 THEN [ok |-> FALSE, cmd |-> NoCmd, used |-> 1, cause |-> "invalid_length_1"]
        ELSE IF Len(toks) < 3 THEN [ok |-> FALSE, cmd |-> NoCmd, used |-> 2, cause |-> "invalid_length_2"]
        ELSE [ok |-> TRUE, cmd |-> CmdSet(toks[2], toks[3]), used |-> 3, cause |-> ""]
    ELSE IF toks[1] = <<"r", "m">> THEN
        IF Len(toks) < 2 THEN [ok |-> FALSE, cmd |-> NoCmd, used |-> 1, cause |-> "invalid_length_1"]
        ELSE [ok |-> TRUE, cmd |-> CmdRm(toks[2]), used |-> 2, cause |-> ""]
    ELSE [ok |-> FALSE, cmd |-> NoCmd, used |-> 1, cause |-> "unknown_variant"]

\* wal_line_deserialize: serde_json::from_str::<Command> on the JSON text of a
\* line. visit_seq takes the elements it asks for, one at a time; a missing
\* element is "invalid length" when the array ended there and a syntax error
\* when something else stands there ("trailing comma" when that is a ","
\* before the "]"); after the command the array must end ("trailing comma"
\* or "trailing characters" otherwise) and nothing but white space may
\* follow it ("trailing characters").
FromStr(line) ==
    LET text == ArrayText(line)
        seq == SeqElements(text, 2, << >>)
        r == VisitSeq(seq.elems)
        bad(cause) == [ok |-> FALSE, cmd |-> NoCmd, used |-> r.used, cause |-> cause]
    IN  IF ~r.ok
        THEN IF r.cause = "unknown_variant" \/ seq.closed THEN r
             ELSE IF seq.comma THEN bad("trailing_comma")
             ELSE bad("syntax")
        ELSE IF r.used < Len(seq.elems) THEN bad("trailing_characters")
        ELSE IF ~seq.closed
             THEN IF seq.comma THEN bad("trailing_comma")
                  ELSE IF seq.next > Len(text) THEN bad("syntax")
                  ELSE bad("trailing_characters")
        ELSE IF SkipSpace(text, seq.next) <= Len(text) THEN bad("trailing_characters")
        ELSE r

\* Display of Command under strum(serialize_all = "lowercase"): the name of
\* the variant in lower case.
Display(cmd) ==
    IF cmd.op = "set" THEN <<"s", "e", "t">>
    ELSE IF cmd.op = "rm" THEN <<"r", "m">>
    ELSE <<"g", "e", "t">>
\* impl Serialize for Command: the string handed to serialize_str.
Serialize(cmd) ==
    IF cmd.op = "set"
    THEN Display(cmd) \o <<Space>> \o cmd.key \o <<Space>> \o cmd.value
    ELSE Display(cmd) \o <<Space>> \o cmd.key

\* ------------------------------------------------------------- index
\* Variant: an insert that keeps the value of a key already present.
StoreInsert_KeepFirst(s, key, value) ==
    [k \in (DOMAIN s) \cup {key} |-> IF k \in DOMAIN s THEN s[k] ELSE value]
\* DashMap::insert
StoreInsert(s, key, value) ==
    [k \in (DOMAIN s) \cup {key} |-> IF k = key THEN value ELSE s[k]]
\* Variant: a remove that leaves the entry in the map.
StoreRemove_Kept(s, key) == s
\* DashMap::remove
StoreRemove(s, key) == [k \in (DOMAIN s) \ {key} |-> s[k]]

\* KvStore::get: Ok(Some(value)) or Ok(None)
GetResult(s, key) ==
    IF key \in DOMAIN s THEN Res("OkSome", s[key], "") ELSE Res("OkNone", NoStr, "")
\* The Get arm of KvStore::execute: the value, or the empty string.
ExecuteGetResult(r) == IF r.kind = "OkSome" THEN OkStr(r.arg) ELSE OkStr(NoStr)
\* Variant: a remove that succeeds on an absent key.
RemoveResult_Idempotent(s, key) == Ok
\* The result of KvStore::remove once the record is written.
RemoveResult(s, key) ==
    IF key \in DOMAIN s THEN Ok ELSE Res("FailedRm", key, "")

\* ------------------------------------------------------------- files
\* Variant: a write that stays in a buffer of the process.
WalWrite_Buffered(d, line) == d
\* One byte put at the end of P, as BufRead::lines will cut the file: a
\* "\n" ends the last line (a "\r" just before it goes with it), any other
\* byte goes on the last line when it has no terminator yet, and starts a
\* line otherwise.
PutChar(f, c) ==
    IF c = "\n"
    THEN IF f.cut
         THEN LET last == f.lines[Len(f.lines)]
              IN  [f EXCEPT !.cut = FALSE,
                            !.lines = IF last # << >> /\ last[Len(last)] = "\r"
                                      THEN [@ EXCEPT ![Len(@)] = SubSeq(last, 1, Len(last) - 1)]
                                      ELSE @]
         ELSE [f EXCEPT !.lines = Append(@, << >>)]
    ELSE IF f.cut
         THEN [f EXCEPT !.lines = [@ EXCEPT ![Len(@)] = Append(@, c)]]
         ELSE [f EXCEPT !.lines = Append(@, <<c>>), !.cut = TRUE]
\* The bytes of chars put at the end of P, one after the other.
RECURSIVE PutChars(_, _)
PutChars(f, chars) ==
    IF chars = << >> THEN f ELSE PutChars(PutChar(f, Head(chars)), Tail(chars))
\* File::write_all of one line and its "\n" on the handle of P
WalWrite(d, line) == [d EXCEPT !.wal = PutChars(@, Append(line, "\n"))]
\* File::write_all that ends after n bytes of the line, before its "\n": the
\* write(2) calls of its loop took that much, then one failed, the process
\* died, or another thread's write came in between.
WalWriteShort(d, line, n) == [d EXCEPT !.wal = PutChars(@, SubSeq(line, 1, n))]
\* fs::rename(P, P') of wal_old_move: P' is replaced if it exists
WalOldMove(d) == [wal |-> NoFile, old |-> d.wal]
\* OpenOptions truncate+create+write of wal_new_open
WalNewOpen(d) == [d EXCEPT !.wal = EmptyFile]
\* Variant: a load that leaves the quarantine file behind.
WalOldRemove_Skipped(d) == d
\* fs::remove_file(P') of wal_old_load
WalOldRemove(d) == [d EXCEPT !.old = NoFile]
\* Variant: a rollback that leaves the files where they are.
WalRestore_Skipped(d) == d
\* fs::rename(P', P) of the rollback branch of open
WalRestore(d) == [wal |-> d.old, old |-> NoFile]

\* ------------------------------------------------------------- state
VARIABLES
    disk,          \* [wal |-> file at P, old |-> file at P']
    store,         \* the DashMap of the live KvStore (empty when there is none)
    pc,            \* "closed", inside open: "moved" "load" "replay" "rollback", or "ready"
    oldWalExists,  \* open's local old_wal_exists
    replayPos,     \* next line wal_read takes from P'
    loadErr,       \* the error wal_old_load returned, while open rolls back
    openRet,       \* what the last open returned (NoRes while it runs)
    tpc,           \* per thread: "idle", "set_write", "set_insert", "rm_write", "rm_remove"
    targ,          \* per thread: the command of the call in progress
    ret,           \* per thread: its last set/remove that returned, and the result
    got,           \* the get made by the last step, if it was one, and its results
    pre,           \* per thread: store and log lines when its last set/remove began
    rest,          \* per thread, inside write_all: the bytes still to write and
                   \* the number of write(2) calls made
    calls,         \* every set/remove call made so far, in call order
    sessStart,     \* Len(calls) when the current open began
    origDisk,      \* the disk when the current open began
    closeIndex,    \* the Index of the previous instance when it was dropped, or
                   \* when the process died with no call running
    lastExit,      \* how the previous instance ended: "none", "close", or by a crash:
                   \* "crash", "crash_call", "crash_write", "crash_open"
    crashDisk,     \* the disk at the start of the open that a crash interrupted
    crashes,       \* process deaths so far
    faults,        \* failed file-system calls so far
    callers,       \* the threads that call into the store
    budget,        \* [ops, crashes, faults]: what the environment of the run allows
    codec          \* the codec on its own: [stage, cmd, line, dec, err]

vars == <<disk, store, pc, oldWalExists, replayPos, loadErr, openRet, tpc, targ,
          ret, got, pre, rest, calls, sessStart, origDisk, closeIndex, lastExit, crashDisk,
          crashes, faults, callers, budget, codec>>

NoDisk == [wal |-> NoFile, old |-> NoFile]
NoRet == [cmd |-> NoCmd, res |-> NoRes]
NoGot == [key |-> NoStr, called |-> FALSE, res |-> NoRes, exec |-> NoRes]
NoPre == [store |-> EmptyStore, lines |-> << >>]
NoRest == [chars |-> << >>, writes |-> 0]
NoDec == [ok |-> FALSE, cmd |-> NoCmd, used |-> 0, cause |-> ""]
NoCodec == [stage |-> "off", cmd |-> NoCmd, line |-> NoStr, dec |-> NoDec, err |-> NoRes]

InitCommon ==
    /\ disk = NoDisk
    /\ store = EmptyStore
    /\ pc = "closed"
    /\ oldWalExists = FALSE
    /\ replayPos = 1
    /\ loadErr = NoRes
    /\ openRet = NoRes
    /\ tpc = [t \in Threads |-> "idle"]
    /\ targ = [t \in Threads |-> NoCmd]
    /\ ret = [t \in Threads |-> NoRet]
    /\ got = NoGot
    /\ pre = [t \in Threads |-> NoPre]
    /\ rest = [t \in Threads |-> NoRest]
    /\ calls = << >>
    /\ sessStart = 0
    /\ origDisk = NoDisk
    /\ closeIndex = EmptyStore
    /\ lastExit = "none"
    /\ crashDisk = NoDisk
    /\ crashes = 0
    /\ faults = 0

\* One caller; the process does not die and every file-system call succeeds.
Init ==
    /\ InitCommon
    /\ callers = {1}
    /\ budget = [ops |-> MaxOps, crashes |-> 0, faults |-> 0]
    /\ codec = NoCodec
\* One caller; the process may die at any step.
InitCrash ==
    /\ InitCommon
    /\ callers = {1}
    /\ budget = [ops |-> MaxOpsCrash, crashes |-> MaxCrashes, faults |-> 0]
    /\ codec = NoCodec
\* One caller; file-system calls may fail.
InitFault ==
    /\ InitCommon
    /\ callers = {1}
    /\ budget = [ops |-> MaxOpsFault, crashes |-> 0, faults |-> MaxFaults]
    /\ codec = NoCodec
\* Several threads share the store.
InitConc ==
    /\ InitCommon
    /\ callers = Threads
    /\ budget = [ops |-> MaxOpsConc, crashes |-> 0, faults |-> 0]
    /\ codec = NoCodec

\* A file-system call succeeds, or fails while the fault budget lasts.
IoOutcomes == IF faults < budget.faults THEN {TRUE, FALSE} ELSE {TRUE}
Fault(ok) == faults' = IF ok THEN faults ELSE faults + 1

threadVars == <<tpc, targ, ret, pre, rest>>
histVars == <<calls, closeIndex, lastExit, crashDisk, crashes, callers, budget, codec>>

\* ------------------------------------------------------------- open
\* KvStore::open up to and including wal_old_move (lines 41-48).  Path::exists
\* and Path::is_file answer false when their stat fails, so a file at P
\* whose stat fails is taken for absent; with no file at P the answer is
\* false either way.
OpenBegin ==
    /\ got' = NoGot
    /\ pc = "closed"
    /\ origDisk' = disk
    /\ sessStart' = Len(calls)
    /\ IF disk.wal.exists
       THEN \E st \in IoOutcomes :
              IF ~st
              THEN /\ Fault(st)
                   /\ oldWalExists' = FALSE
                   /\ disk' = disk
                   /\ pc' = "moved"
                   /\ openRet' = NoRes
              ELSE /\ oldWalExists' = TRUE
                   /\ \E ok \in IoOutcomes :
                        /\ Fault(ok)
                        /\ IF ok
                           THEN /\ disk' = WalOldMove(disk)
                                /\ pc' = "moved"
                                /\ openRet' = NoRes
                           ELSE /\ disk' = disk
                                /\ pc' = "closed"
                                /\ openRet' = Err("FailedWalRename")
       ELSE /\ oldWalExists' = FALSE
            /\ disk' = disk
            /\ pc' = "moved"
            /\ openRet' = NoRes
            /\ faults' = faults
    /\ UNCHANGED <<store, replayPos, loadErr, threadVars, histVars>>

\* The store literal of open with wal_new_open (lines 50-54); without an old
\* WAL open returns Ok(store) at once (line 66).
OpenCreate ==
    /\ got' = NoGot
    /\ pc = "moved"
    /\ \E ok \in IoOutcomes :
         /\ Fault(ok)
         /\ IF ok
            THEN /\ disk' = WalNewOpen(disk)
                 /\ pc' = IF oldWalExists THEN "load" ELSE "ready"
                 /\ openRet' = IF oldWalExists THEN NoRes ELSE Ok
            ELSE /\ disk' = disk
                 /\ pc' = "closed"
                 /\ openRet' = Err("FailedWalOpen")
    /\ store' = EmptyStore
    /\ UNCHANGED <<oldWalExists, replayPos, loadErr, threadVars, sessStart,
                   origDisk, histVars>>

\* File::open(P') of wal_old_load (line 97).
OpenLoad ==
    /\ got' = NoGot
    /\ pc = "load"
    /\ \E ok \in IoOutcomes :
         /\ Fault(ok)
         /\ IF ok
            THEN /\ pc' = "replay"
                 /\ loadErr' = NoRes
            ELSE /\ pc' = "rollback"
                 /\ loadErr' = Err("FailedOldWalOpen")
    /\ replayPos' = 1
    /\ UNCHANGED <<disk, store, oldWalExists, openRet, threadVars, sessStart,
                   origDisk, histVars>>

\* One turn of the loop of wal_read: the read of the next line of P', which
\* may fail (wal_line_read, Err arm), then wal_line_deserialize and execute on
\* the line (lines 109-112, 117-129, 135-153, with set and remove as called
\* from execute).
WalReadLine ==
    /\ got' = NoGot
    /\ pc = "replay"
    /\ replayPos <= Len(disk.old.lines)
    /\ \E rd \in IoOutcomes :
         IF ~rd
         THEN /\ Fault(rd)
              /\ pc' = "rollback"
              /\ loadErr' = Err("FailedWalLineRead")
              /\ UNCHANGED <<disk, store, replayPos>>
         ELSE
           LET d == FromStr(disk.old.lines[replayPos])
           IN  IF ~d.ok
               THEN /\ pc' = "rollback"
                    /\ loadErr' = Res("DeserializeCommand", NoStr, d.cause)
                    /\ UNCHANGED <<disk, store, replayPos, faults>>
               ELSE \E ok \in IoOutcomes :
                      /\ Fault(ok)
                      /\ IF ~ok
                         THEN /\ pc' = "rollback"
                              /\ loadErr' = Err("FailedWalWrite")
                              /\ \E n \in 0..Len(RecordOf(d.cmd)) :
                                   disk' = WalWriteShort(disk, RecordOf(d.cmd), n)
                              /\ UNCHANGED <<store, replayPos>>
                         ELSE IF d.cmd.op = "set"
                         THEN /\ disk' = WalWrite(disk, RecordOf(d.cmd))
                              /\ store' = StoreInsert(store, d.cmd.key, d.cmd.value)
                              /\ pc' = "replay"
                              /\ loadErr' = NoRes
                              /\ replayPos' = replayPos + 1
                         ELSE /\ disk' = WalWrite(disk, RecordOf(d.cmd))
                              /\ store' = StoreRemove(store, d.cmd.key)
                              /\ LET r == RemoveResult(store, d.cmd.key)
                                 IN  IF r.kind = "Ok"
                                     THEN /\ pc' = "replay"
                                          /\ loadErr' = NoRes
                                          /\ replayPos' = replayPos + 1
                                     ELSE /\ pc' = "rollback"
                                          /\ loadErr' = r
                                          /\ replayPos' = replayPos
    /\ UNCHANGED <<oldWalExists, openRet, threadVars, sessStart, origDisk, histVars>>

\* The last turn of the loop of wal_read, the read that finds the end of P'
\* and may fail like any other (wal_line_read, Err arm), then the end of
\* wal_old_load (lines 100-105) and Ok(store) of open: the delete of P' may
\* fail, which is only reported on stderr.
OpenFinish ==
    /\ got' = NoGot
    /\ pc = "replay"
    /\ replayPos > Len(disk.old.lines)
    /\ \E rd \in IoOutcomes :
         IF ~rd
         THEN /\ Fault(rd)
              /\ pc' = "rollback"
              /\ loadErr' = Err("FailedWalLineRead")
              /\ UNCHANGED <<disk, openRet>>
         ELSE /\ \E ok \in IoOutcomes :
                   /\ Fault(ok)
                   /\ disk' = IF ok THEN WalOldRemove(disk) ELSE disk
              /\ pc' = "ready"
              /\ openRet' = Ok
              /\ loadErr' = loadErr
    /\ UNCHANGED <<store, oldWalExists, replayPos, threadVars, sessStart,
                   origDisk, histVars>>

\* The rollback branch of open (lines 58-63); the store is dropped.
OpenRollback ==
    /\ got' = NoGot
    /\ pc = "rollback"
    /\ \E ok \in IoOutcomes :
         /\ Fault(ok)
         /\ IF ok
            THEN /\ disk' = WalRestore(disk)
                 /\ openRet' = loadErr
            ELSE /\ disk' = disk
                 /\ openRet' = Err("FailedWalRestore")
    /\ pc' = "closed"
    /\ store' = EmptyStore
    /\ loadErr' = NoRes
    /\ UNCHANGED <<oldWalExists, replayPos, threadVars, sessStart, origDisk, histVars>>

\* ------------------------------------------------------------- calls
Idle(t) == pc = "ready" /\ t \in callers /\ tpc[t] = "idle"
Snapshot == [store |-> store, lines |-> disk.wal.lines]
openVars == <<pc, oldWalExists, replayPos, loadErr, openRet, sessStart>>
exitVars == <<crashes, callers, budget, codec>>

\* What is remembered of the calls that have returned is dropped when thread t
\* begins a call: r is what is remembered of the new call from its first step.
StartRet(t, r) == [u \in Threads |-> IF u = t THEN r ELSE NoRet]
StartPre(t) ==
    [u \in Threads |-> IF u = t THEN Snapshot
                       ELSE IF tpc[u] = "idle" THEN NoPre ELSE pre[u]]

\* What is remembered of the previous instance and of the disk before open is
\* dropped at the first mutation of the new instance.
Forget ==
    /\ closeIndex' = EmptyStore
    /\ lastExit' = "none"
    /\ crashDisk' = NoDisk
    /\ origDisk' = NoDisk

\* The bytes write_all is given for a record: the line and its "\n".
RecordBytes(line) == Append(line, "\n")
\* Whether a write(2) of the loop of write_all by thread t may take only a
\* part of its buffer and the loop go on.  The File is shared by the callers
\* with no lock around write_all, so another caller's write(2) can come
\* between two of them; with no other caller nothing can, and the file is then
\* the same as after one write(2) of the whole record.
MayWriteShort(t, writes) == callers # {t} /\ writes + 1 < MaxWrites

\* KvStore::set, line 173, up to the return of the first write(2) of
\* write_all: the whole record is written; or a part of it, and the loop goes
\* on; or the write fails after some part of the record, possibly none, and
\* set returns the error.
SetWrite(t, key, value) ==
    /\ got' = NoGot
    /\ Idle(t)
    /\ Forget
    /\ Len(calls) < budget.ops
    /\ calls' = Append(calls, CmdSet(key, value))
    /\ pre' = StartPre(t)
    /\ \E ok \in IoOutcomes :
         /\ Fault(ok)
         /\ IF ok
            THEN /\ targ' = [targ EXCEPT ![t] = CmdSet(key, value)]
                 /\ ret' = StartRet(t, NoRet)
                 /\ \/ /\ disk' = WalWrite(disk, SetLine(key, value))
                       /\ tpc' = [tpc EXCEPT ![t] = "set_insert"]
                       /\ rest' = rest
                    \/ /\ MayWriteShort(t, 0)
                       /\ \E n \in 1..Len(SetLine(key, value)) :
                            /\ disk' = WalWriteShort(disk, SetLine(key, value), n)
                            /\ rest' = [rest EXCEPT ![t] =
                                          [chars |-> SubSeq(RecordBytes(SetLine(key, value)),
                                                            n + 1, Len(SetLine(key, value)) + 1),
                                           writes |-> 1]]
                       /\ tpc' = [tpc EXCEPT ![t] = "set_write"]
            ELSE /\ \E n \in 0..Len(SetLine(key, value)) :
                      disk' = WalWriteShort(disk, SetLine(key, value), n)
                 /\ tpc' = tpc
                 /\ targ' = targ
                 /\ rest' = rest
                 /\ ret' = StartRet(t, [cmd |-> CmdSet(key, value),
                                             res |-> Err("FailedWalWrite")])
    /\ UNCHANGED <<store, openVars, exitVars>>

\* The next write(2) of the loop of write_all, in set (line 173) or in remove
\* (line 200): it takes all the bytes left, and the call goes on to its Index
\* step; or a part of them; or it fails after some of them, possibly none, and
\* the call returns the error.
WriteRest(t) ==
    /\ got' = NoGot
    /\ pc = "ready"
    /\ tpc[t] \in {"set_write", "rm_write"}
    /\ \E ok \in IoOutcomes :
         /\ Fault(ok)
         /\ IF ok
            THEN /\ ret' = ret
                 /\ \/ /\ disk' = [disk EXCEPT !.wal = PutChars(@, rest[t].chars)]
                       /\ tpc' = [tpc EXCEPT ![t] = IF tpc[t] = "set_write"
                                                    THEN "set_insert" ELSE "rm_remove"]
                       /\ targ' = targ
                       /\ rest' = [rest EXCEPT ![t] = NoRest]
                    \/ /\ MayWriteShort(t, rest[t].writes)
                       /\ \E n \in 1..(Len(rest[t].chars) - 1) :
                            /\ disk' = [disk EXCEPT !.wal =
                                          PutChars(@, SubSeq(rest[t].chars, 1, n))]
                            /\ rest' = [rest EXCEPT ![t] =
                                          [chars |-> SubSeq(rest[t].chars, n + 1,
                                                            Len(rest[t].chars)),
                                           writes |-> rest[t].writes + 1]]
                       /\ tpc' = tpc
                       /\ targ' = targ
            ELSE /\ \E n \in 0..(Len(rest[t].chars) - 1) :
                      disk' = [disk EXCEPT !.wal = PutChars(@, SubSeq(rest[t].chars, 1, n))]
                 /\ tpc' = [tpc EXCEPT ![t] = "idle"]
                 /\ targ' = [targ EXCEPT ![t] = NoCmd]
                 /\ rest' = [rest EXCEPT ![t] = NoRest]
                 /\ ret' = [ret EXCEPT ![t] = [cmd |-> targ[t],
                                               res |-> Err("FailedWalWrite")]]
    /\ UNCHANGED <<store, pre, calls, openVars, origDisk, closeIndex, lastExit,
                   crashDisk, exitVars>>

\* KvStore::set, lines 174-176: the insert and Ok(()).
SetInsert(t) ==
    /\ got' = NoGot
    /\ pc = "ready"
    /\ tpc[t] = "set_insert"
    /\ store' = StoreInsert(store, targ[t].key, targ[t].value)
    /\ ret' = [ret EXCEPT ![t] = [cmd |-> targ[t], res |-> Ok]]
    /\ tpc' = [tpc EXCEPT ![t] = "idle"]
    /\ targ' = [targ EXCEPT ![t] = NoCmd]
    /\ UNCHANGED <<disk, pre, rest, calls, faults, openVars, origDisk, closeIndex,
                   lastExit, crashDisk, exitVars>>

\* Variant: a remove that takes the key out of the Index before it writes.
RemoveWrite_ApplyFirst(t, key) ==
    /\ got' = NoGot
    /\ Idle(t)
    /\ Forget
    /\ Len(calls) < budget.ops
    /\ calls' = Append(calls, CmdRm(key))
    /\ pre' = StartPre(t)
    /\ store' = StoreRemove(store, key)
    /\ \E ok \in IoOutcomes :
         /\ Fault(ok)
         /\ IF ok
            THEN /\ targ' = [targ EXCEPT ![t] = CmdRm(key)]
                 /\ ret' = StartRet(t, NoRet)
                 /\ \/ /\ disk' = WalWrite(disk, RmLine(key))
                       /\ tpc' = [tpc EXCEPT ![t] = "rm_remove"]
                       /\ rest' = rest
                    \/ /\ MayWriteShort(t, 0)
                       /\ \E n \in 1..Len(RmLine(key)) :
                            /\ disk' = WalWriteShort(disk, RmLine(key), n)
                            /\ rest' = [rest EXCEPT ![t] =
                                          [chars |-> SubSeq(RecordBytes(RmLine(key)),
                                                            n + 1, Len(RmLine(key)) + 1),
                                           writes |-> 1]]
                       /\ tpc' = [tpc EXCEPT ![t] = "rm_write"]
            ELSE /\ \E n \in 0..Len(RmLine(key)) :
                      disk' = WalWriteShort(disk, RmLine(key), n)
                 /\ tpc' = tpc
                 /\ targ' = targ
                 /\ rest' = rest
                 /\ ret' = StartRet(t, [cmd |-> CmdRm(key),
                                             res |-> Err("FailedWalWrite")])
    /\ UNCHANGED <<openVars, exitVars>>

\* KvStore::remove, line 200, up to the return of the first write(2) of
\* write_all: the record is written whether or not the key is present, with
\* the outcomes of the write in set.
RemoveWrite(t, key) ==
    /\ got' = NoGot
    /\ Idle(t)
    /\ Forget
    /\ Len(calls) < budget.ops
    /\ calls' = Append(calls, CmdRm(key))
    /\ pre' = StartPre(t)
    /\ \E ok \in IoOutcomes :
         /\ Fault(ok)
         /\ IF ok
            THEN /\ targ' = [targ EXCEPT ![t] = CmdRm(key)]
                 /\ ret' = StartRet(t, NoRet)
                 /\ \/ /\ disk' = WalWrite(disk, RmLine(key))
                       /\ tpc' = [tpc EXCEPT ![t] = "rm_remove"]
                       /\ rest' = rest
                    \/ /\ MayWriteShort(t, 0)
                       /\ \E n \in 1..Len(RmLine(key)) :
                            /\ disk' = WalWriteShort(disk, RmLine(key), n)
                            /\ rest' = [rest EXCEPT ![t] =
                                          [chars |-> SubSeq(RecordBytes(RmLine(key)),
                                                            n + 1, Len(RmLine(key)) + 1),
                                           writes |-> 1]]
                       /\ tpc' = [tpc EXCEPT ![t] = "rm_write"]
            ELSE /\ \E n \in 0..Len(RmLine(key)) :
                      disk' = WalWriteShort(disk, RmLine(key), n)
                 /\ tpc' = tpc
                 /\ targ' = targ
                 /\ rest' = rest
                 /\ ret' = StartRet(t, [cmd |-> CmdRm(key),
                                             res |-> Err("FailedWalWrite")])
    /\ UNCHANGED <<store, openVars, exitVars>>

\* KvStore::remove, lines 201-204: the DashMap remove and its result.
RemoveApply(t) ==
    /\ got' = NoGot
    /\ pc = "ready"
    /\ tpc[t] = "rm_remove"
    /\ store' = StoreRemove(store, targ[t].key)
    /\ ret' = [ret EXCEPT ![t] = [cmd |-> targ[t],
                                  res |-> RemoveResult(store, targ[t].key)]]
    /\ tpc' = [tpc EXCEPT ![t] = "idle"]
    /\ targ' = [targ EXCEPT ![t] = NoCmd]
    /\ UNCHANGED <<disk, pre, rest, calls, faults, openVars, origDisk, closeIndex,
                   lastExit, crashDisk, exitVars>>

\* Variant: a get that writes a record of itself as set and remove do.
Get_Logged(t, key) ==
    /\ Idle(t)
    /\ got' = [key |-> key, called |-> TRUE, res |-> GetResult(store, key),
               exec |-> ExecuteGetResult(GetResult(store, key))]
    /\ disk' = WalWrite(disk, <<"g", "e", "t", Space>> \o key)
    /\ UNCHANGED <<store, threadVars, calls, faults, openVars, origDisk,
                   closeIndex, lastExit, crashDisk, exitVars>>
\* KvStore::get (res), and the Get arm of KvStore::execute on the same Index
\* (exec).  Neither writes anything.
Get(t, key) ==
    /\ Idle(t)
    /\ got' = [key |-> key, called |-> TRUE, res |-> GetResult(store, key),
               exec |-> ExecuteGetResult(GetResult(store, key))]
    /\ UNCHANGED <<disk, store, threadVars, calls, faults, openVars, origDisk,
                   closeIndex, lastExit, crashDisk, exitVars>>

\* ------------------------------------------------------------- exit
NoThreads ==
    /\ tpc' = [t \in Threads |-> "idle"]
    /\ targ' = [t \in Threads |-> NoCmd]
    /\ ret' = [t \in Threads |-> NoRet]
    /\ pre' = [t \in Threads |-> NoPre]
    /\ rest' = [t \in Threads |-> NoRest]

\* impl Drop for KvStore with no call in progress: flush and sync_all change
\* neither the lines of the file nor the Index, which is then released.
Drop ==
    /\ got' = NoGot
    /\ pc = "ready"
    /\ \A t \in Threads : tpc[t] = "idle"
    /\ closeIndex' = store
    /\ lastExit' = "close"
    /\ pc' = "closed"
    /\ store' = EmptyStore
    /\ NoThreads
    /\ crashDisk' = NoDisk
    /\ origDisk' = NoDisk
    /\ openRet' = NoRes
    /\ replayPos' = 1
    /\ oldWalExists' = FALSE
    /\ UNCHANGED <<disk, loadErr, sessStart, calls, crashes, faults, callers, budget, codec>>

\* The process dies and leaves the files as d: memory is lost.  how tells
\* where it died: "crash" with no call running, "crash_call" between the
\* write and the Index step of a call, "crash_write" inside the write of a
\* call, "crash_open" inside open.
ProcessDies(how, d) ==
    /\ got' = NoGot
    /\ crashes < budget.crashes
    /\ crashes' = crashes + 1
    /\ lastExit' = how
    /\ crashDisk' = IF pc = "ready" THEN NoDisk ELSE origDisk
    /\ origDisk' = NoDisk
    /\ closeIndex' = IF how = "crash" THEN store ELSE EmptyStore
    /\ replayPos' = 1
    /\ oldWalExists' = FALSE
    /\ pc' = "closed"
    /\ store' = EmptyStore
    /\ loadErr' = NoRes
    /\ openRet' = NoRes
    /\ NoThreads
    /\ disk' = d
    /\ UNCHANGED <<sessStart, faults, callers, budget, codec>>

\* The process dies between two steps, inside open or with a store open: the
\* files stay as they are.
Crash ==
    /\ pc # "closed"
    /\ ProcessDies(IF pc # "ready" THEN "crash_open"
                   ELSE IF \A t \in Threads : tpc[t] = "idle" THEN "crash"
                   ELSE "crash_call", disk)
    /\ calls' = calls

\* The process dies inside the write_all of set (line 173), between two
\* write(2) calls of its loop: a part of the record is in P.
CrashInSetWrite(t, key, value) ==
    /\ Idle(t)
    /\ Len(calls) < budget.ops
    /\ calls' = Append(calls, CmdSet(key, value))
    /\ \E n \in 1..Len(SetLine(key, value)) :
         ProcessDies("crash_write", WalWriteShort(disk, SetLine(key, value), n))

\* The same inside the write_all of remove (line 200).
CrashInRemoveWrite(t, key) ==
    /\ Idle(t)
    /\ Len(calls) < budget.ops
    /\ calls' = Append(calls, CmdRm(key))
    /\ \E n \in 1..Len(RmLine(key)) :
         ProcessDies("crash_write", WalWriteShort(disk, RmLine(key), n))

\* The same inside the write_all of a replayed set or remove, in open: a
\* part of the record made anew from the decoded command is in P.
CrashInReplayWrite ==
    /\ pc = "replay"
    /\ replayPos <= Len(disk.old.lines)
    /\ FromStr(disk.old.lines[replayPos]).ok
    /\ calls' = calls
    /\ LET line == RecordOf(FromStr(disk.old.lines[replayPos]).cmd)
       IN  \E n \in 1..Len(line) :
             ProcessDies("crash_open", WalWriteShort(disk, line, n))

\* ------------------------------------------------------------- spec
\* Everything but get: open, drop, and set and remove with keys of K.
Mutate(K) ==
    \/ OpenBegin
    \/ OpenCreate
    \/ OpenLoad
    \/ WalReadLine
    \/ OpenFinish
    \/ OpenRollback
    \/ \E t \in Threads, key \in K, value \in Values : SetWrite(t, key, value)
    \/ \E t \in Threads : SetInsert(t)
    \/ \E t \in Threads, key \in K : RemoveWrite(t, key)
    \/ \E t \in Threads : RemoveApply(t)
    \/ Drop

Core ==
    \/ Mutate(Keys)
    \/ \E t \in Threads, key \in Keys : Get(t, key)

\* get makes no file-system call and changes nothing, and a key with a space
\* is written and read back like any other, so the runs with process deaths
\* and with failing file-system calls are taken without get and with the
\* keys that have no space.
CleanKeys == {k \in Keys : IsClean(k)}
Next == Core
\* One caller, set and remove on keys that hold a JSON escape sequence.
NextEscape == Mutate(EscapeKeys)
\* With several callers the loop of write_all can take more than one step.
NextConc == Core \/ \E t \in Threads : WriteRest(t)
NextFault == Mutate(CleanKeys)
NextCrash ==
    \/ Mutate(CleanKeys)
    \/ Crash
    \/ \E t \in Threads, key \in CleanKeys, value \in Values : CrashInSetWrite(t, key, value)
    \/ \E t \in Threads, key \in CleanKeys : CrashInRemoveWrite(t, key)
    \/ CrashInReplayWrite

Spec == Init /\ [][Next]_vars
SpecCrash == InitCrash /\ [][NextCrash]_vars
SpecFault == InitFault /\ [][NextFault]_vars
SpecConc == InitConc /\ [][NextConc]_vars
SpecEscape == Init /\ [][NextEscape]_vars

\* ------------------------------------------------------------- codec alone
\* The strings of at most n characters over the letters a and b, the space
\* and the backslash.
RECURSIVE StrsUpTo(_)
StrsUpTo(n) ==
    IF n = 0 THEN { << >> }
    ELSE StrsUpTo(n - 1) \cup
         { Append(s, c) : s \in {x \in StrsUpTo(n - 1) : Len(x) = n - 1},
                          c \in {"a", "b", Space, Backslash} }
CodecStrs == StrsUpTo(MaxStrLen)
CodecCommands ==
    { CmdGet(k) : k \in CodecStrs } \cup { CmdRm(k) : k \in CodecStrs }
        \cup { CmdSet(k, v) : k \in CodecStrs, v \in CodecStrs }
\* The lines of at most n words, one space between two words; no word gives
\* the empty line.
CodecWords ==
    { <<"g", "e", "t">>, <<"s", "e", "t">>, <<"r", "m">>, <<"a">>, <<"b">>,
      <<Backslash, Backslash>> }
RECURSIVE LinesUpTo(_)
LinesUpTo(n) ==
    IF n = 0 THEN { << >> }
    ELSE LinesUpTo(n - 1) \cup CodecWords \cup
         { l \o <<Space>> \o w : l \in LinesUpTo(n - 1) \ { << >> }, w \in CodecWords }
CodecLines == LinesUpTo(MaxWords)

storeVars == <<disk, store, pc, oldWalExists, replayPos, loadErr, openRet, tpc,
               targ, ret, got, pre, rest, calls, sessStart, origDisk, closeIndex,
               lastExit, crashDisk, crashes, faults, callers, budget>>

\* No store: a command to serialize, or a line as read from a log.
InitCodec ==
    /\ InitCommon
    /\ callers = {}
    /\ budget = [ops |-> 0, crashes |-> 0, faults |-> 0]
    /\ \/ \E c \in CodecCommands : codec = [NoCodec EXCEPT !.stage = "cmd", !.cmd = c]
       \/ \E l \in CodecLines : codec = [NoCodec EXCEPT !.stage = "line", !.line = l]

\* impl Serialize for Command on the command.
SerializeStep ==
    /\ codec.stage = "cmd"
    /\ codec' = [codec EXCEPT !.stage = "line", !.line = Serialize(codec.cmd)]
    /\ UNCHANGED storeVars

\* wal_line_deserialize on the line, up to the call of execute: the command,
\* or the serde_json error as KvStoreError::DeserializeCommand.
DeserializeStep ==
    /\ codec.stage = "line"
    /\ LET d == FromStr(codec.line)
       IN  codec' = [codec EXCEPT !.stage = "decoded", !.dec = d,
                       !.err = IF d.ok THEN Ok
                               ELSE Res("DeserializeCommand", NoStr, d.cause)]
    /\ UNCHANGED storeVars

NextCodec == SerializeStep \/ DeserializeStep
SpecCodec == InitCodec /\ [][NextCodec]_vars

\* ------------------------------------------------------------- claims
\* Vocabulary of the claims.
AllIdle == \A t \in Threads : tpc[t] = "idle"
\* open has returned and no set/remove was called since.
JustOpened == openRet # NoRes /\ Len(calls) = sessStart
IsError(r) == r.kind \notin {"none", "Ok", "OkSome", "OkNone"}
CleanCmds(cs) == \A i \in 1..Len(cs) : IsClean(cs[i].key) /\ IsClean(cs[i].value)
\* What a map answers for key after the mutations cs, applied in order.
ExpectedGet(cs, key) ==
    LET hits == {i \in 1..Len(cs) : cs[i].key = key}
    IN  IF hits = {} THEN Res("OkNone", NoStr, "")
        ELSE LET last == CHOOSE i \in hits : \A j \in hits : j <= i
             IN  IF cs[last].op = "set" THEN Res("OkSome", cs[last].value, "")
                 ELSE Res("OkNone", NoStr, "")
\* The Index holds exactly what a map holds after the mutations cs.
IndexIs(s, cs) ==
    /\ DOMAIN s \subseteq Keys
    /\ \A key \in Keys : GetResult(s, key) = ExpectedGet(cs, key)
\* Every remove of cs targets a key that is present when it is made.
ValidRemoves(cs) ==
    \A i \in 1..Len(cs) :
        cs[i].op = "rm" => ExpectedGet(SubSeq(cs, 1, i - 1), cs[i].key).kind = "OkSome"
Decodes(lines) == \A i \in 1..Len(lines) : FromStr(lines[i]).ok
\* The commands of the lines of a log all of whose lines decode.
Records(lines) == [i \in 1..Len(lines) |-> FromStr(lines[i]).cmd]

\* C1 (as claimed): after any sequence of set and remove calls with
\* space-free keys and values, removes of absent keys included, a clean close
\* followed by open succeeds and yields the Index the closed instance had.
C1_ReplayEquivalence ==
    (lastExit = "close" /\ JustOpened /\ CleanCmds(calls))
        => (openRet = Ok /\ pc = "ready" /\ store = closeIndex)

\* C2 (as claimed): when the process died inside open, the next open succeeds
\* with the Index that the records of the original log give (here a log that
\* replays without error): none of them is lost or left unread.
C2_CrashSafeRecovery ==
    (lastExit = "crash_open" /\ JustOpened /\ crashes = 1
       /\ Decodes(crashDisk.wal.lines) /\ ValidRemoves(Records(crashDisk.wal.lines)))
        => (openRet = Ok /\ IndexIs(store, Records(crashDisk.wal.lines)))

\* C3 (as claimed): once every call of every thread has returned, the Index
\* is what the records of the active log give when applied in file order.
C3_IndexFollowsLogOrder ==
    (pc = "ready" /\ AllIdle /\ CleanCmds(calls) /\ Decodes(disk.wal.lines))
        => IndexIs(store, Records(disk.wal.lines))

\* C4: when the log at P holds a line that does not decode, open returns an
\* error and no store, P holds again exactly what it held before open, and
\* no file is left at P'.
C4_RollbackAtomicity ==
    (JustOpened /\ ~Decodes(origDisk.wal.lines))
        => /\ IsError(openRet)
           /\ pc = "closed"
           /\ store = EmptyStore
           /\ disk.wal = origDisk.wal
           /\ ~disk.old.exists
\* open has failed on the second line of a log, after replaying the first
\* into the fresh log.
C4_Witness ==
    /\ JustOpened
    /\ openRet.kind = "DeserializeCommand"
    /\ Len(origDisk.wal.lines) >= 2
    /\ FromStr(origDisk.wal.lines[1]).ok
    /\ ~FromStr(origDisk.wal.lines[2]).ok

\* C5 (as claimed): get on an absent key returns the not-found error
\* (KvStoreError::FailedRm, "Key not found") with the key, directly and
\* through execute.
C5_GetAbsentIsNotFound ==
    (got.called /\ got.key \notin DOMAIN store)
        => /\ got.res = Res("FailedRm", got.key, "")
           /\ got.exec = Res("FailedRm", got.key, "")

\* C6: a remove of a key absent from the Index appends exactly the record
\* "rm <key>" to the active log, leaves the Index as it was and returns the
\* not-found error with the key.
C6_RemoveAbsent ==
    \A t \in callers :
        (pc = "ready" /\ tpc[t] = "idle" /\ ret[t].cmd.op = "rm"
           /\ ret[t].cmd.key \notin DOMAIN pre[t].store)
            => /\ ret[t].res = Res("FailedRm", ret[t].cmd.key, "")
               /\ store = pre[t].store
               /\ disk.wal.lines = Append(pre[t].lines, RmLine(ret[t].cmd.key))
\* A remove of an absent key has returned on a store that holds another key.
C6_Witness ==
    /\ pc = "ready"
    /\ tpc[1] = "idle"
    /\ ret[1].cmd.op = "rm"
    /\ ret[1].cmd.key \notin DOMAIN pre[1].store
    /\ pre[1].store # EmptyStore

\* C7: when the append of a set or remove fails, the call returns the I/O
\* error (FailedWalWrite) at once and the Index is what it was before the
\* call.  With a store open the only file-system call is that append.
C7_AppendBeforeApply ==
    [][(pc = "ready" /\ faults' = faults + 1)
         => /\ store' = store
            /\ \E t \in callers :
                 /\ tpc[t] = "idle"
                 /\ tpc'[t] = "idle"
                 /\ ret'[t] = [cmd |-> calls'[Len(calls')], res |-> Err("FailedWalWrite")]]_vars
\* A remove of a present key has failed on its append, and the key is still
\* in the Index.
C7_Witness ==
    /\ pc = "ready"
    /\ tpc[1] = "idle"
    /\ ret[1].cmd.op = "rm"
    /\ ret[1].res = Err("FailedWalWrite")
    /\ ret[1].cmd.key \in DOMAIN store

\* C8: on a store opened on an empty directory, after any sequence of set and
\* remove calls by one caller, get returns the value of the last set of the
\* key unless a remove of the key followed it, and nothing for a key never
\* set or last removed; a set or remove leaves every other key as it was.
C8_MapSemantics ==
    /\ (got.called /\ sessStart = 0) => got.res = ExpectedGet(calls, got.key)
    /\ \A t \in callers :
         (pc = "ready" /\ tpc[t] = "idle" /\ ret[t].cmd.op \in {"set", "rm"})
            => \A key \in Keys \ {ret[t].cmd.key} :
                 GetResult(store, key) = GetResult(pre[t].store, key)
\* After three calls a get finds nothing for a key that was set and then
\* removed, while another key is present.
C8_Witness ==
    /\ got.called
    /\ sessStart = 0
    /\ Len(calls) = 3
    /\ got.res.kind = "OkNone"
    /\ \E i \in 1..Len(calls) : calls[i].op = "set" /\ calls[i].key = got.key
    /\ store # EmptyStore

C10_NoSilentOverwrite ==
    [][(pc = "closed" /\ disk.wal.exists /\ disk.old.exists)
         => \/ disk'.old = disk.old
            \/ (pc' = "closed" /\ IsError(openRet'))]_vars

\* C11 (as claimed): when the process died after a set or remove had
\* written its record and before it touched the Index, the next open
\* succeeds and its Index reflects every call made, that one included.
C11_CrashBetweenAppendAndApply ==
    (lastExit = "crash_call" /\ JustOpened /\ CleanCmds(calls))
        => (openRet = Ok /\ IndexIs(store, calls))

\* C12: a record is in the file at P as soon as its call has returned: when
\* the process dies with no call running, without Drop, the file ends with
\* the record of the last call, and when every remove recorded in that file
\* had succeeded the next open succeeds with the Index the process had when
\* it died.
C12_DurableAppend ==
    /\ (lastExit = "crash" /\ pc = "closed" /\ openRet = NoRes /\ Len(calls) > sessStart)
         => /\ Len(disk.wal.lines) > 0
            /\ disk.wal.lines[Len(disk.wal.lines)] =
                 (IF calls[Len(calls)].op = "set"
                  THEN SetLine(calls[Len(calls)].key, calls[Len(calls)].value)
                  ELSE RmLine(calls[Len(calls)].key))
    /\ (/\ lastExit = "crash"
        /\ JustOpened
        /\ Decodes(origDisk.wal.lines)
        /\ ValidRemoves(Records(origDisk.wal.lines)))
         => (openRet = Ok /\ pc = "ready" /\ store = closeIndex)
\* A store reopened after the process died with no call running, two calls
\* made and their pairs in the Index it had.
C12_Witness ==
    /\ lastExit = "crash"
    /\ JustOpened
    /\ openRet = Ok
    /\ CleanCmds(calls)
    /\ ValidRemoves(calls)
    /\ Len(calls) = 2
    /\ sessStart = 2
    /\ store # EmptyStore
    /\ store = closeIndex

\* The line is a set record or an rm record: its first word is set or rm.
IsMutationLine(line) ==
    SplitSpaces(line)[1] \in { <<"s", "e", "t">>, <<"r", "m">> }

\* C14: a step in which get is called changes neither the Index nor the files,
\* and after every step each line of the active log is a set or an rm
\* record, never a get record.
C14_GetIsReadOnly ==
    [][ /\ got'.called => (store' = store /\ disk' = disk)
        /\ \A i \in 1..Len(disk'.wal.lines) : IsMutationLine(disk'.wal.lines[i])
      ]_vars
\* get has just answered with the value of a key over a log of two records.
C14_Witness ==
    /\ got.called
    /\ got.res.kind = "OkSome"
    /\ Len(disk.wal.lines) = 2

\* C15: as long as no set or remove was ever called, every open, the first
\* on the empty directory and each one after a close, succeeds with an empty
\* Index, an empty log at P and no file at P'.
C15_IdempotentEmptyRecovery ==
    (JustOpened /\ Len(calls) = 0)
        => /\ openRet = Ok
           /\ pc = "ready"
           /\ store = EmptyStore
           /\ disk.wal = EmptyFile
           /\ ~disk.old.exists
\* The second open: it found the empty log of the first one and moved it.
C15_Witness ==
    /\ JustOpened
    /\ Len(calls) = 0
    /\ lastExit = "close"
    /\ oldWalExists
    /\ openRet = Ok

\* C17 (as claimed): when open fails after it has moved the log to P', for
\* any reason but a failure of the rollback itself, the original log is back
\* at P with its original content and no file is at P'.
C17_OpenAllOrNothing ==
    (/\ pc = "closed"
     /\ JustOpened
     /\ oldWalExists
     /\ IsError(openRet)
     /\ openRet.kind \notin {"FailedWalRename", "FailedWalRestore"})
        => (disk.wal = origDisk.wal /\ ~disk.old.exists)

\* C18 (as claimed): after an open that succeeded, the log at P holds
\* exactly the lines the log at P had before that open, in the same order,
\* and no file is at P'; this holds for each of any number of close and
\* reopen cycles.
C18_ReplayRehomesLog ==
    (JustOpened /\ openRet = Ok)
        => /\ disk.wal.exists
           /\ disk.wal.lines = origDisk.wal.lines
           /\ ~disk.old.exists

C20_WriteAhead ==
    /\ \A k \in DOMAIN store :
         \E i \in 1..Len(disk.wal.lines) : disk.wal.lines[i] = SetLine(k, store[k])
    /\ (got.called /\ got.res.kind = "OkSome")
         => \E i \in 1..Len(disk.wal.lines) :
              disk.wal.lines[i] = SetLine(got.key, got.res.arg)

\* C13 (as claimed): for a Get, Set or Rm command whose key and value hold
\* no space, decoding the line the serializer gives for it succeeds and
\* yields that command.
C13_CodecRoundTrip ==
    (/\ codec.stage = "decoded"
     /\ codec.cmd # NoCmd
     /\ IsClean(codec.cmd.key)
     /\ IsClean(codec.cmd.value))
        => (codec.dec.ok /\ codec.dec.cmd = codec.cmd)

\* The words of a line: what splitting it on whitespace gives.
Tokens(line) == SelectSeq(SplitSpaces(line), LAMBDA w : w # << >>)
CommandWords == { <<"g", "e", "t">>, <<"s", "e", "t">>, <<"r", "m">> }

\* C16 (as claimed): decoding a line read from a log fails with
\* MissingCommand when it has no word, with InvalidCommand(word) when its
\* first word is not get, set or rm, with MissingKey when it is get, rm or
\* set alone, and with MissingValue when it is set with a key alone.
C16_DecodeErrors ==
    (codec.stage = "decoded" /\ codec.cmd = NoCmd)
        => LET w == Tokens(codec.line)
           IN  /\ Len(w) = 0 => codec.err.kind = "MissingCommand"
               /\ (Len(w) > 0 /\ w[1] \notin CommandWords)
                    => (codec.err.kind = "InvalidCommand" /\ codec.err.arg = w[1])
               /\ (Len(w) = 1 /\ w[1] \in CommandWords)
                    => codec.err.kind = "MissingKey"
               /\ (Len(w) = 2 /\ w[1] = <<"s", "e", "t">>)
                    => codec.err.kind = "MissingValue"

====
